---- MODULE Spec2Model ----
(***************************************************************************)
(* Model of cryptofyre/Meiko's transcription CLI (fasterWhisper.py) and    *)
(* its smoke-test harness (test_transcription.py).                         *)
(*                                                                         *)
(* Strings that the code inspects character by character (paths, segment   *)
(* texts, messages) are sequences of one-character strings.                *)
(***************************************************************************)
EXTENDS Integers, Sequences, FiniteSets, TLC

VARIABLES
    entry,          \* which entry point runs: "validate", "cli", "lib", "harness"
    pc,             \* position of the running code
    argv,           \* the command line: [kind, audio_file, language, model]
    fexists,        \* os.path.exists(audio_file)
    fsize,          \* os.path.getsize(audio_file)
    valid,          \* last value returned by validate_audio_file
    constructed,    \* a FasterWhisperTranscriber has been constructed
    self_language,  \* transcriber.language
    self_model_size,\* transcriber.model_size
    model,          \* transcriber.model (NoModel = None)
    handles,        \* every model handle WhisperModel(...) has returned
    ctor_calls,     \* number of WhisperModel(...) constructor calls
    decode_calls,   \* number of self.model.transcribe(...) calls
    decode_language,\* language= argument of the last decode call
    decode_model,   \* handle the last decode call was made on
    info,           \* TranscriptionInfo returned by the last decode call
    yielded,        \* segment texts the generator has yielded so far
    full_text,      \* local full_text of transcribe_file
    segment_count,  \* local segment_count of transcribe_file
    result,         \* value returned by the last transcribe_file call
    exc,            \* exception in flight / last raised out of transcribe_file
    stdout,         \* lines written to standard output
    stderr,         \* lines written to standard error
    exitcode,       \* process exit status (meaningful once pc = "done")
    installed,      \* faster_whisper can be imported
    interrupted_at, \* positions at which a KeyboardInterrupt arrived, in order
    calls,          \* lib entry: number of transcribe_file calls made
    h               \* smoke-test harness state (record)

vars == <<entry, pc, argv, fexists, fsize, valid, constructed, self_language,
          self_model_size, model, handles, ctor_calls, decode_calls,
          decode_language, decode_model, info, yielded, full_text,
          segment_count, result, exc, stdout, stderr, exitcode, installed,
          interrupted_at,
          calls, h>>

(***************************************************************************)
(* Bounds                                                                  *)
(***************************************************************************)
MaxSegs == 2        \* segments the library yields for one file
MaxCalls == 2       \* transcribe_file calls on one transcriber (lib entry)
MaxInterrupts == 1  \* KeyboardInterrupts delivered to one invocation

(***************************************************************************)
(* Values                                                                  *)
(***************************************************************************)
None == "None"                  \* Python None / JSON null
NoModel == 0                    \* self.model = None
MinSize == 1024                 \* smallest accepted file size

(***************************************************************************)
(* str.lower() on the characters that occur in the model's paths           *)
(***************************************************************************)
LowerChar(c) ==
    CASE c = "A" -> "a"
      [] c = "M" -> "m"
      [] c = "P" -> "p"
      [] c = "V" -> "v"
      [] c = "W" -> "w"
      [] OTHER   -> c

Lower(s) == [i \in 1..Len(s) |-> LowerChar(s[i])]

(* last index of character c in s, 0 when absent (str.rfind, 1-based) *)
RFind(s, c) ==
    LET hits == {i \in 1..Len(s) : s[i] = c}
    IN  IF hits = {} THEN 0 ELSE CHOOSE i \in hits : \A j \in hits : j <= i

(* Path(p).name: the final path component *)
Name(p) == SubSeq(p, RFind(p, "/") + 1, Len(p))

(* Path(p).suffix: from the last dot of the name, unless that dot is the
   first or the last character of the name *)
Suffix(p) ==
    LET name == Name(p)
        i    == RFind(name, ".")
    IN  IF 1 < i /\ i < Len(name) THEN SubSeq(name, i, Len(name)) ELSE <<>>

valid_extensions ==
    { <<".", "m", "p", "3">>, <<".", "w", "a", "v">>, <<".", "m", "4", "a">>,
      <<".", "o", "g", "g">>, <<".", "f", "l", "a", "c">>, <<".", "a", "a", "c">> }

file_ext_nolower(file_path) == Suffix(file_path)

file_ext(file_path) == Lower(Suffix(file_path))

validate_noexists(file_path, exists, size) ==
    IF exists /\ size < MinSize THEN FALSE
    ELSE file_ext(file_path) \in valid_extensions

validate_audio_file(file_path, exists, size) ==
    IF ~exists THEN FALSE
    ELSE IF size < MinSize THEN FALSE
    ELSE file_ext(file_path) \in valid_extensions

(***************************************************************************)
(* Inputs                                                                  *)
(***************************************************************************)
Stems == { <<"a">>, <<"d", "/", "a">>, <<"d", ".", "x", "/", "a">>, <<>>, <<"d", "/">> }

Exts == { <<>>, <<".">>,
          <<".", "w", "a", "v">>, <<".", "W", "A", "V">>, <<".", "W", "a", "v">>,
          <<".", "m", "p", "3">>, <<".", "M", "P", "3">>,
          <<".", "m", "4", "a">>, <<".", "o", "g", "g">>,
          <<".", "f", "l", "a", "c">>, <<".", "a", "a", "c">>,
          <<".", "t", "x", "t">>, <<".", "m", "p", "4">>, <<".", "w", "a", "v", "e">>,
          <<".", "w", "a", "v", ".", "t", "x", "t">>,
          <<".", "t", "x", "t", ".", "w", "a", "v">>,
          <<"w", "a", "v">>, <<".", "w", "a", "v", ".">> }

AllPaths == {s \o e : s \in Stems, e \in Exts}

Sizes == {0, MinSize - 1, MinSize, MinSize + 1}

(* the paths the command line is run on *)
CliPaths == { <<"a", ".", "w", "a", "v">>, <<"a", ".", "M", "P", "3">>,
              <<"a", ".", "t", "x", "t">> }

Languages == {"en", "fr", "auto", ""}

ModelSizes == {"tiny", "base"}

NoArgv == [kind |-> "none", audio_file |-> <<>>, language |-> "en", model |-> "tiny"]

NoInfo == [has_language |-> FALSE, language |-> None]

NoExc == [type |-> None, msg |-> <<>>, origin |-> None]

NoResult == [text |-> <<>>]

(***************************************************************************)
(* The external library's possible answers                                 *)
(***************************************************************************)
(* segment texts: empty, blank, with a leading and with a trailing space *)
SegTexts == { <<>>, <<" ">>, <<"a">>, <<" ", "a">>, <<"a", " ">> }

DetectedLanguages == {"en", "de"}

Infos == {[has_language |-> TRUE, language |-> l] : l \in DetectedLanguages}
         \cup {NoInfo}

Msgs == { <<"m">>, <<"n">> }

(* exceptions the library raises; origin records where (history only) *)
LibExcs(origin) == {[type |-> t, msg |-> m, origin |-> origin] :
                        t \in {"RuntimeError", "ValueError"}, m \in Msgs}

Durations == {0, 1}

(***************************************************************************)
(* FasterWhisperTranscriber                                                *)
(***************************************************************************)
(* __init__: self.language *)
InitLanguage(language) ==
    IF language # None /\ language # "" /\ language # "auto" THEN language ELSE None

(* main: the language= argument of the constructor *)
MainLanguage(language) == IF language # "auto" THEN language ELSE None

NeedsLoad_always(m) == TRUE

(* transcribe_file: if self.model is None *)
NeedsLoad(m) == m = NoModel

IsSpace(c) == c = " "

RECURSIVE LStrip(_)
LStrip(s) == IF s # <<>> /\ IsSpace(Head(s)) THEN LStrip(Tail(s)) ELSE s

RECURSIVE RStrip(_)
RStrip(s) == IF s # <<>> /\ IsSpace(s[Len(s)]) THEN RStrip(SubSeq(s, 1, Len(s) - 1)) ELSE s

(* str.strip() *)
Strip(s) == LStrip(RStrip(s))

AddSegment_nospace(text, seg) == text \o seg

(* full_text += segment.text + " " *)
AddSegment(text, seg) == text \o seg \o <<" ">>

ResultLanguage_configured(i, configured) == configured

(* info.language if hasattr(info, 'language') else self.language *)
ResultLanguage(i, configured) ==
    IF i.has_language THEN i.language ELSE configured

(* round(size / (1024 * 1024), 2), in hundredths of a MiB *)
FileSizeMb(size) == (size * 100 + 524288) \div 1048576

(***************************************************************************)
(* Output lines                                                            *)
(***************************************************************************)
UsageLine == [raw |-> "usage"]

InvalidError(path) == [error |-> <<"Invalid or missing audio file: ">> \o path]

CancelledError == [error |-> <<"Transcription cancelled by user">>]

FailedError_nomsg(msg) == [error |-> <<"Transcription failed: ">>]

FailedError(msg) == [error |-> <<"Transcription failed: ">> \o msg]

MissingDependencyError ==
    [error |-> <<"faster-whisper not installed. Run: pip install faster-whisper">>]

FileNotFound(path) ==
    [type |-> "FileNotFoundError", msg |-> <<"Audio file not found: ">> \o path,
     origin |-> "exists"]

NoneTypeError ==
    [type |-> "AttributeError",
     msg |-> <<"'NoneType' object has no attribute 'transcribe'">>,
     origin |-> "decode"]

(***************************************************************************)
(* Initial states                                                          *)
(***************************************************************************)
Files == {[exists |-> FALSE, size |-> 0]}
         \cup {[exists |-> TRUE, size |-> s] : s \in Sizes}

InitCommon ==
    /\ valid = FALSE
    /\ self_language = None
    /\ self_model_size = "tiny"
    /\ model = NoModel
    /\ handles = {}
    /\ ctor_calls = 0
    /\ decode_calls = 0
    /\ decode_language = None
    /\ decode_model = NoModel
    /\ info = NoInfo
    /\ yielded = <<>>
    /\ full_text = <<>>
    /\ segment_count = 0
    /\ result = NoResult
    /\ exc = NoExc
    /\ stdout = <<>>
    /\ stderr = <<>>
    /\ exitcode = 0
    /\ interrupted_at = <<>>
    /\ calls = 0

NoHarness == [pc |-> "unused"]

(* validate_audio_file called on its own *)
InitValidate ==
    /\ InitCommon
    /\ entry = "validate"
    /\ pc = "call"
    /\ \E p \in AllPaths :
           argv = [kind |-> "ok", audio_file |-> p, language |-> "en", model |-> "tiny"]
    /\ \E f \in Files : fexists = f.exists /\ fsize = f.size
    /\ constructed = FALSE
    /\ installed = TRUE
    /\ h = NoHarness

(* python fasterWhisper.py ... *)
InitCLI ==
    /\ InitCommon
    /\ entry = "cli"
    /\ pc = "import"
    /\ \E k \in {"ok", "help", "usage_error"}, p \in CliPaths, l \in Languages,
          m \in ModelSizes :
           argv = [kind |-> k, audio_file |-> p, language |-> l, model |-> m]
    /\ \E f \in Files : fexists = f.exists /\ fsize = f.size
    /\ constructed = FALSE
    /\ installed \in BOOLEAN
    /\ h = NoHarness

(* an embedding program that constructed one FasterWhisperTranscriber *)
InitLib ==
    /\ valid = FALSE
    /\ \E l \in Languages : self_language = InitLanguage(l)
    /\ self_model_size = "tiny"
    /\ model = NoModel
    /\ handles = {}
    /\ ctor_calls = 0
    /\ decode_calls = 0
    /\ decode_language = None
    /\ decode_model = NoModel
    /\ info = NoInfo
    /\ yielded = <<>>
    /\ full_text = <<>>
    /\ segment_count = 0
    /\ result = NoResult
    /\ exc = NoExc
    /\ stdout = <<>>
    /\ stderr = <<>>
    /\ exitcode = 0
    /\ interrupted_at = <<>>
    /\ calls = 0
    /\ entry = "lib"
    /\ pc = "idle"
    /\ argv = [kind |-> "none", audio_file |-> <<"a", ".", "w", "a", "v">>,
               language |-> "en", model |-> "tiny"]
    /\ fexists = TRUE
    /\ fsize = MinSize
    /\ constructed = TRUE
    /\ installed = TRUE
    /\ h = NoHarness

(***************************************************************************)
(* validate_audio_file on its own                                          *)
(***************************************************************************)
ValidateCall ==
    /\ entry = "validate"
    /\ pc = "call"
    /\ valid' = validate_audio_file(argv.audio_file, fexists, fsize)
    /\ pc' = "returned"
    /\ UNCHANGED <<entry, argv, fexists, fsize, constructed, self_language,
                   self_model_size, model, handles, ctor_calls, decode_calls,
                   decode_language, decode_model, info, yielded, full_text,
                   segment_count, result, exc, stdout, stderr, exitcode,
                   installed, interrupted_at, calls, h>>

NextValidate == ValidateCall

SpecValidate == InitValidate /\ [][NextValidate]_vars

(***************************************************************************)
(* transcribe_file, shared by the command line and the lib entry           *)
(***************************************************************************)
(* an exception leaves transcribe_file: main's handler, or the lib caller *)
RaiseTo(e) ==
    /\ exc' = e
    /\ pc' = IF entry = "cli" THEN "h_exc" ELSE "idle"

(* lines 91-96: existence re-check, then the lazy-load decision *)
TranscribeEntry ==
    /\ pc = "tf_entry"
    /\ IF ~fexists
       THEN RaiseTo(FileNotFound(argv.audio_file))
       ELSE /\ pc' = IF NeedsLoad(model) THEN "load_model" ELSE "decode"
            /\ UNCHANGED exc
    /\ UNCHANGED <<entry, argv, fexists, fsize, valid, constructed, self_language,
                   self_model_size, model, handles, ctor_calls, decode_calls,
                   decode_language, decode_model, info, yielded, full_text,
                   segment_count, result, stdout, stderr, exitcode, installed,
                   interrupted_at, calls, h>>

(* load_model: WhisperModel(...) returns a fresh handle *)
LoadModelOk ==
    /\ pc = "load_model"
    /\ ctor_calls' = ctor_calls + 1
    /\ model' = ctor_calls + 1
    /\ handles' = handles \cup {ctor_calls + 1}
    /\ pc' = "decode"
    /\ UNCHANGED <<entry, argv, fexists, fsize, valid, constructed, self_language,
                   self_model_size, decode_calls, decode_language, decode_model,
                   info, yielded, full_text, segment_count, result, exc, stdout,
                   stderr, exitcode, installed, interrupted_at, calls, h>>

(* load_model: WhisperModel(...) raises; logged and re-raised *)
LoadModelFails ==
    /\ pc = "load_model"
    /\ ctor_calls' = ctor_calls + 1
    /\ \E e \in LibExcs("load") : RaiseTo(e)
    /\ UNCHANGED <<entry, argv, fexists, fsize, valid, constructed, self_language,
                   self_model_size, model, handles, decode_calls, decode_language,
                   decode_model, info, yielded, full_text, segment_count, result,
                   stdout, stderr, exitcode, installed, interrupted_at, calls, h>>

(* lines 103-127: self.model.transcribe(...) returns (segments, info) *)
DecodeOk ==
    /\ pc = "decode"
    /\ IF model = NoModel
       THEN /\ RaiseTo(NoneTypeError)
            /\ UNCHANGED <<decode_calls, decode_language, decode_model, info,
                           yielded, full_text, segment_count>>
       ELSE /\ decode_calls' = decode_calls + 1
            /\ decode_language' = self_language
            /\ decode_model' = model
            /\ info' \in Infos
            /\ yielded' = <<>>
            /\ full_text' = <<>>
            /\ segment_count' = 0
            /\ pc' = "iterate"
            /\ UNCHANGED exc
    /\ UNCHANGED <<entry, argv, fexists, fsize, valid, constructed, self_language,
                   self_model_size, model, handles, ctor_calls, result, stdout,
                   stderr, exitcode, installed, interrupted_at, calls, h>>

(* self.model.transcribe(...) raises; logged and re-raised *)
DecodeFails ==
    /\ pc = "decode"
    /\ model # NoModel
    /\ decode_calls' = decode_calls + 1
    /\ decode_language' = self_language
    /\ decode_model' = model
    /\ \E e \in LibExcs("decode") : RaiseTo(e)
    /\ UNCHANGED <<entry, argv, fexists, fsize, valid, constructed, self_language,
                   self_model_size, model, handles, ctor_calls, info, yielded,
                   full_text, segment_count, result, stdout, stderr, exitcode,
                   installed, interrupted_at, calls, h>>

(* lines 129-131: the generator yields one more segment *)
IterateSegment ==
    /\ pc = "iterate"
    /\ Len(yielded) < MaxSegs
    /\ \E t \in SegTexts :
           /\ yielded' = Append(yielded, t)
           /\ full_text' = AddSegment(full_text, t)
    /\ segment_count' = segment_count + 1
    /\ UNCHANGED <<entry, pc, argv, fexists, fsize, valid, constructed,
                   self_language, self_model_size, model, handles, ctor_calls,
                   decode_calls, decode_language, decode_model, info, result, exc,
                   stdout, stderr, exitcode, installed, interrupted_at, calls, h>>

(* the generator raises while decoding the next segment *)
IterateFails ==
    /\ pc = "iterate"
    /\ \E e \in LibExcs("decode") : RaiseTo(e)
    /\ UNCHANGED <<entry, argv, fexists, fsize, valid, constructed, self_language,
                   self_model_size, model, handles, ctor_calls, decode_calls,
                   decode_language, decode_model, info, yielded, full_text,
                   segment_count, result, stdout, stderr, exitcode, installed,
                   interrupted_at, calls, h>>

(* lines 134-151: the generator is exhausted; strip, build and return result *)
Assemble ==
    /\ pc = "iterate"
    /\ full_text' = Strip(full_text)
    /\ \E d \in Durations :
           result' = [text          |-> full_text',
                      language      |-> ResultLanguage(info, self_language),
                      duration      |-> d,
                      segments      |-> segment_count,
                      model_size    |-> self_model_size,
                      file_size_mb  |-> FileSizeMb(fsize)]
    /\ pc' = IF entry = "cli" THEN "print_result" ELSE "idle"
    /\ UNCHANGED <<entry, argv, fexists, fsize, valid, constructed, self_language,
                   self_model_size, model, handles, ctor_calls, decode_calls,
                   decode_language, decode_model, info, yielded, segment_count,
                   exc, stdout, stderr, exitcode, installed, interrupted_at, calls, h>>

Transcribe ==
    \/ TranscribeEntry
    \/ LoadModelOk
    \/ LoadModelFails
    \/ DecodeOk
    \/ DecodeFails
    \/ IterateSegment
    \/ IterateFails
    \/ Assemble

(***************************************************************************)
(* lib entry: repeated transcribe_file calls on one transcriber            *)
(***************************************************************************)
(* a new call: the previous call's locals and outcome are gone *)
LibCall ==
    /\ entry = "lib"
    /\ pc = "idle"
    /\ calls < MaxCalls
    /\ calls' = calls + 1
    /\ fexists' \in BOOLEAN
    /\ exc' = NoExc
    /\ result' = NoResult
    /\ info' = NoInfo
    /\ yielded' = <<>>
    /\ full_text' = <<>>
    /\ segment_count' = 0
    /\ pc' = "tf_entry"
    /\ UNCHANGED <<entry, argv, fsize, valid, constructed, self_language,
                   self_model_size, model, handles, ctor_calls, decode_calls,
                   decode_language, decode_model, stdout, stderr, exitcode,
                   installed, interrupted_at, h>>

NextLib == LibCall \/ Transcribe

SpecLib == InitLib /\ [][NextLib]_vars

(***************************************************************************)
(* Command line: import guard and main                                     *)
(***************************************************************************)
(* lines 16-20: from faster_whisper import WhisperModel *)
ImportGuard ==
    /\ entry = "cli"
    /\ pc = "import"
    /\ IF installed
       THEN /\ pc' = "parse"
            /\ UNCHANGED <<stderr, exitcode>>
       ELSE /\ stderr' = Append(stderr, MissingDependencyError)
            /\ exitcode' = 1
            /\ pc' = "done"
    /\ UNCHANGED <<entry, argv, fexists, fsize, valid, constructed, self_language,
                   self_model_size, model, handles, ctor_calls, decode_calls,
                   decode_language, decode_model, info, yielded, full_text,
                   segment_count, result, exc, stdout, installed, interrupted_at,
                   calls, h>>

(* lines 174-192: parser.parse_args(); argparse prints the help and exits 0,
   or prints a usage error to stderr and exits 2 *)
ParseArgs ==
    /\ pc = "parse"
    /\ IF argv.kind = "help"
       THEN /\ stdout' = Append(stdout, UsageLine)
            /\ exitcode' = 0
            /\ pc' = "done"
            /\ UNCHANGED stderr
       ELSE IF argv.kind = "usage_error"
       THEN /\ stderr' = Append(stderr, UsageLine)
            /\ exitcode' = 2
            /\ pc' = "done"
            /\ UNCHANGED stdout
       ELSE /\ pc' = "validate"
            /\ UNCHANGED <<stdout, stderr, exitcode>>
    /\ UNCHANGED <<entry, argv, fexists, fsize, valid, constructed, self_language,
                   self_model_size, model, handles, ctor_calls, decode_calls,
                   decode_language, decode_model, info, yielded, full_text,
                   segment_count, result, exc, installed, interrupted_at, calls, h>>

(* line 196: if not validate_audio_file(args.audio_file) *)
Validate ==
    /\ pc = "validate"
    /\ valid' = validate_audio_file(argv.audio_file, fexists, fsize)
    /\ pc' = IF valid' THEN "construct" ELSE "print_invalid"
    /\ UNCHANGED <<entry, argv, fexists, fsize, constructed, self_language,
                   self_model_size, model, handles, ctor_calls, decode_calls,
                   decode_language, decode_model, info, yielded, full_text,
                   segment_count, result, exc, stdout, stderr, exitcode,
                   installed, interrupted_at, calls, h>>

(* lines 197-200 *)
PrintInvalid ==
    /\ pc = "print_invalid"
    /\ stdout' = Append(stdout, InvalidError(argv.audio_file))
    /\ pc' = "exit_invalid"
    /\ UNCHANGED <<entry, argv, fexists, fsize, valid, constructed, self_language,
                   self_model_size, model, handles, ctor_calls, decode_calls,
                   decode_language, decode_model, info, yielded, full_text,
                   segment_count, result, exc, stderr, exitcode, installed,
                   interrupted_at, calls, h>>

(* line 201: sys.exit(1); SystemExit passes both except clauses *)
ExitInvalid ==
    /\ pc = "exit_invalid"
    /\ exitcode' = 1
    /\ pc' = "done"
    /\ UNCHANGED <<entry, argv, fexists, fsize, valid, constructed, self_language,
                   self_model_size, model, handles, ctor_calls, decode_calls,
                   decode_language, decode_model, info, yielded, full_text,
                   segment_count, result, exc, stdout, stderr, installed,
                   interrupted_at, calls, h>>

(* lines 204-211: construct the transcriber and call transcribe_file *)
Construct ==
    /\ pc = "construct"
    /\ constructed' = TRUE
    /\ self_language' = InitLanguage(MainLanguage(argv.language))
    /\ self_model_size' = argv.model
    /\ model' = NoModel
    /\ pc' = "tf_entry"
    /\ UNCHANGED <<entry, argv, fexists, fsize, valid, handles, ctor_calls,
                   decode_calls, decode_language, decode_model, info, yielded,
                   full_text, segment_count, result, exc, stdout, stderr,
                   exitcode, installed, interrupted_at, calls, h>>

(* line 214: print(json.dumps(result)) *)
PrintResult ==
    /\ pc = "print_result"
    /\ stdout' = Append(stdout, result)
    /\ pc' = "end_try"
    /\ UNCHANGED <<entry, argv, fexists, fsize, valid, constructed, self_language,
                   self_model_size, model, handles, ctor_calls, decode_calls,
                   decode_language, decode_model, info, yielded, full_text,
                   segment_count, result, exc, stderr, exitcode, installed,
                   interrupted_at, calls, h>>

(* the try block is left, main returns: exit status 0 *)
EndMain ==
    /\ pc = "end_try"
    /\ exitcode' = 0
    /\ pc' = "done"
    /\ UNCHANGED <<entry, argv, fexists, fsize, valid, constructed, self_language,
                   self_model_size, model, handles, ctor_calls, decode_calls,
                   decode_language, decode_model, info, yielded, full_text,
                   segment_count, result, exc, stdout, stderr, installed,
                   interrupted_at, calls, h>>

(* lines 221-223: except Exception *)
HandleException ==
    /\ pc = "h_exc"
    /\ stdout' = Append(stdout, FailedError(exc.msg))
    /\ pc' = "h_exc_exit"
    /\ UNCHANGED <<entry, argv, fexists, fsize, valid, constructed, self_language,
                   self_model_size, model, handles, ctor_calls, decode_calls,
                   decode_language, decode_model, info, yielded, full_text,
                   segment_count, result, exc, stderr, exitcode, installed,
                   interrupted_at, calls, h>>

(* line 224 *)
ExitException ==
    /\ pc = "h_exc_exit"
    /\ exitcode' = 1
    /\ pc' = "done"
    /\ UNCHANGED <<entry, argv, fexists, fsize, valid, constructed, self_language,
                   self_model_size, model, handles, ctor_calls, decode_calls,
                   decode_language, decode_model, info, yielded, full_text,
                   segment_count, result, exc, stdout, stderr, installed,
                   interrupted_at, calls, h>>

(* lines 216-218: except KeyboardInterrupt *)
HandleInterrupt ==
    /\ pc = "h_kbd"
    /\ stdout' = Append(stdout, CancelledError)
    /\ pc' = "h_kbd_exit"
    /\ UNCHANGED <<entry, argv, fexists, fsize, valid, constructed, self_language,
                   self_model_size, model, handles, ctor_calls, decode_calls,
                   decode_language, decode_model, info, yielded, full_text,
                   segment_count, result, exc, stderr, exitcode, installed,
                   interrupted_at, calls, h>>

(* line 219 *)
ExitInterrupt ==
    /\ pc = "h_kbd_exit"
    /\ exitcode' = 1
    /\ pc' = "done"
    /\ UNCHANGED <<entry, argv, fexists, fsize, valid, constructed, self_language,
                   self_model_size, model, handles, ctor_calls, decode_calls,
                   decode_language, decode_model, info, yielded, full_text,
                   segment_count, result, exc, stdout, stderr, installed,
                   interrupted_at, calls, h>>

(* positions inside main's try block (lines 194-214) *)
TryPositions == {"validate", "print_invalid", "exit_invalid", "construct",
                 "tf_entry", "load_model", "decode", "iterate", "print_result",
                 "end_try"}

(* positions of main outside the try block: argument parsing (lines 174-192)
   and the except clauses (lines 216-224) *)
UnprotectedPositions == {"parse", "h_exc", "h_exc_exit", "h_kbd",
                         "h_kbd_exit"}

(* SIGINT: Python raises KeyboardInterrupt in the main thread at its current
   position.  Inside the try block it reaches except KeyboardInterrupt;
   anywhere else it is uncaught: traceback on stderr, death by SIGINT
   (status 130). *)
Interrupt ==
    /\ entry = "cli"
    /\ Len(interrupted_at) < MaxInterrupts
    /\ pc \in TryPositions \cup UnprotectedPositions
    /\ interrupted_at' = Append(interrupted_at, pc)
    /\ IF pc \in TryPositions
       THEN /\ pc' = "h_kbd"
            /\ UNCHANGED <<stderr, exitcode>>
       ELSE /\ stderr' = Append(stderr, [raw |-> "Traceback: KeyboardInterrupt"])
            /\ exitcode' = 130
            /\ pc' = "done"
    /\ UNCHANGED <<entry, argv, fexists, fsize, valid, constructed, self_language,
                   self_model_size, model, handles, ctor_calls, decode_calls,
                   decode_language, decode_model, info, yielded, full_text,
                   segment_count, result, exc, stdout, installed, calls, h>>

NextCLI ==
    \/ ImportGuard
    \/ ParseArgs
    \/ Validate
    \/ PrintInvalid
    \/ ExitInvalid
    \/ Construct
    \/ Transcribe
    \/ PrintResult
    \/ EndMain
    \/ HandleException
    \/ ExitException
    \/ HandleInterrupt
    \/ ExitInterrupt
    \/ Interrupt

SpecCLI == InitCLI /\ [][NextCLI]_vars

(***************************************************************************)
(* Smoke-test harness (test_transcription.py)                              *)
(***************************************************************************)
TestFile == "/tmp/test_audio.wav"

NoSub == [kind |-> "none", rc |-> 0, out |-> "garbage"]

(* what subprocess.run of the command line can give the harness *)
SubOutcomes ==
    {[kind |-> "completed", rc |-> r, out |-> o] :
         r \in {0, 1, 2}, o \in {"dict", "nondict", "garbage"}}
    \cup {[kind |-> "timeout", rc |-> 0, out |-> "garbage"],
          [kind |-> "oserror", rc |-> 0, out |-> "garbage"]}

RunDisposition_earlyReturn(sub) ==
    IF sub.kind = "completed" /\ sub.rc = 0 /\ sub.out = "dict" THEN "success"
    ELSE IF sub.kind = "completed" /\ sub.rc # 0 THEN "diagnostics"
    ELSE "cleanup"

(* lines 69-99: where control goes after the subprocess call.
   timeout -> except TimeoutExpired; oserror -> except Exception;
   rc # 0 -> else branch; rc = 0 with text that is not JSON -> except
   JSONDecodeError; rc = 0 with JSON that is not an object -> output.get
   raises AttributeError -> except Exception; all of these fall through to
   the cleanup at lines 101-103.  rc = 0 with a JSON object -> lines 78-86. *)
RunDisposition(sub) ==
    IF sub.kind = "completed" /\ sub.rc = 0 /\ sub.out = "dict" THEN "success"
    ELSE "cleanup"

InitHarness ==
    /\ InitCommon
    /\ entry = "harness"
    /\ pc = "harness"
    /\ argv = NoArgv
    /\ fexists = FALSE
    /\ fsize = 0
    /\ constructed = FALSE
    /\ installed \in BOOLEAN
    /\ \E se \in BOOLEAN, fe \in BOOLEAN :
           h = [pc |-> "check_script", script_exists |-> se, file_exists |-> fe,
                synthesized |-> FALSE, test_file |-> None, ret |-> "unset",
                sub |-> NoSub, python_ok |-> TRUE, exit |-> 0]

HarnessUnchanged ==
    UNCHANGED <<entry, pc, argv, fexists, fsize, valid, constructed, self_language,
                self_model_size, model, handles, ctor_calls, decode_calls,
                decode_language, decode_model, info, yielded, full_text,
                segment_count, result, exc, stdout, stderr, exitcode, installed,
                interrupted_at, calls>>

(* lines 36-42 *)
H_CheckScript ==
    /\ entry = "harness"
    /\ h.pc = "check_script"
    /\ h' = IF h.script_exists
            THEN [h EXCEPT !.pc = "help"]
            ELSE [h EXCEPT !.pc = "returned", !.ret = "False"]
    /\ HarnessUnchanged

(* lines 44-58: fasterWhisper.py --help *)
H_Help ==
    /\ entry = "harness"
    /\ h.pc = "help"
    /\ \E ok \in BOOLEAN :
           h' = IF ok
                THEN [h EXCEPT !.pc = "create"]
                ELSE [h EXCEPT !.pc = "returned", !.ret = "False"]
    /\ HarnessUnchanged

(* lines 13-29 and 62: create_test_audio *)
H_CreateAudio ==
    /\ entry = "harness"
    /\ h.pc = "create"
    /\ \E espeak \in BOOLEAN, wrote \in BOOLEAN :
           LET written == espeak /\ wrote
               there   == h.file_exists \/ written
           IN  h' = [h EXCEPT !.pc = "check_file",
                              !.file_exists = there,
                              !.synthesized = written,
                              !.test_file = IF espeak /\ there THEN TestFile ELSE None]
    /\ HarnessUnchanged

(* line 64: if test_file and os.path.exists(test_file) *)
H_CheckFile ==
    /\ entry = "harness"
    /\ h.pc = "check_file"
    /\ h' = IF h.test_file # None /\ h.file_exists
            THEN [h EXCEPT !.pc = "run"]
            ELSE [h EXCEPT !.pc = "diagnostics"]
    /\ HarnessUnchanged

(* lines 69-99: run the command line on the test file *)
H_Run ==
    /\ entry = "harness"
    /\ h.pc = "run"
    /\ \E sub \in SubOutcomes :
           h' = IF RunDisposition(sub) = "success"
                THEN [h EXCEPT !.sub = sub, !.file_exists = FALSE,
                               !.ret = "True", !.pc = "returned"]
                ELSE [h EXCEPT !.sub = sub, !.pc = RunDisposition(sub)]
    /\ HarnessUnchanged

(* lines 101-103 *)
H_Cleanup ==
    /\ entry = "harness"
    /\ h.pc = "cleanup"
    /\ h' = [h EXCEPT !.file_exists = FALSE, !.pc = "diagnostics"]
    /\ HarnessUnchanged

(* lines 112-129: environment diagnostics, then return False *)
H_Diagnostics ==
    /\ entry = "harness"
    /\ h.pc = "diagnostics"
    /\ \E py \in BOOLEAN :
           h' = [h EXCEPT !.python_ok = py, !.ret = "False", !.pc = "returned"]
    /\ HarnessUnchanged

(* lines 131-149: main turns the result into the exit status *)
H_Main ==
    /\ entry = "harness"
    /\ h.pc = "returned"
    /\ h' = [h EXCEPT !.exit = IF h.ret = "True" THEN 0 ELSE 1, !.pc = "exited"]
    /\ HarnessUnchanged

NextHarness ==
    \/ H_CheckScript
    \/ H_Help
    \/ H_CreateAudio
    \/ H_CheckFile
    \/ H_Run
    \/ H_Cleanup
    \/ H_Diagnostics
    \/ H_Main

SpecHarness == InitHarness /\ [][NextHarness]_vars

(***************************************************************************)
(* Properties                                                              *)
(***************************************************************************)
SuccessFields == {"text", "language", "duration", "segments", "model_size",
                  "file_size_mb"}

IsSuccess(line) == DOMAIN line = SuccessFields

IsError(line) == DOMAIN line = {"error"}

(* the line is exactly the error object e *)
IsErrorLine(line, e) == IsError(line) /\ line.error = e.error

CliDone == entry = "cli" /\ pc = "done"

(* main ran to validation: the library is installed and the arguments parsed *)
ArgsParsed == installed /\ argv.kind = "ok"

Uninterrupted == interrupted_at = <<>>

ResultEmitted == \E i \in 1..Len(stdout) : IsSuccess(stdout[i])

(* an interrupt arrived while argparse was still parsing the command line *)
InterruptedWhileParsing == interrupted_at # <<>> /\ interrupted_at[1] = "parse"

(* the invocation asked for a transcription: not --help, and no interrupt
   while the command line was still being parsed *)
TranscriptionRequested == argv.kind # "help" /\ ~InterruptedWhileParsing

(* C1: every invocation of main writes exactly one JSON object to standard
   output, of the success shape or of the error shape.  (Stated for the
   invocations that ask for a transcription.) *)
C1_ExactlyOneJsonObject ==
    (CliDone /\ installed /\ TranscriptionRequested) =>
        /\ Len(stdout) = 1
        /\ IsSuccess(stdout[1]) \/ IsError(stdout[1])

(* C2: the exit status is 0 exactly when a TranscriptionResult was emitted,
   and it is never anything but 0 or 1.  (Stated for the invocations that
   ask for a transcription.) *)
C2_ExitCodeContract ==
    (CliDone /\ TranscriptionRequested) =>
        /\ (exitcode = 0) <=> ResultEmitted
        /\ exitcode \in {0, 1}

(* C3: when validate_audio_file returns false in main (in particular for a
   path that does not exist), an invocation that is not cancelled emits
   exactly the "Invalid or missing audio file: <path>" error and exits 1;
   and as long as validation has not returned true no transcriber is
   constructed, no model is loaded and no decode call is made. *)
C3_InvalidFileRejected ==
    /\ (CliDone /\ ArgsParsed /\ Uninterrupted /\ (~valid \/ ~fexists)) =>
           /\ ~valid
           /\ Len(stdout) = 1
           /\ IsErrorLine(stdout[1], InvalidError(argv.audio_file))
           /\ exitcode = 1
    /\ (entry = "cli" /\ ~valid) =>
           /\ ~constructed
           /\ ctor_calls = 0
           /\ decode_calls = 0
           /\ model = NoModel

C3_Witness ==
    /\ CliDone /\ ArgsParsed /\ Uninterrupted
    /\ ~fexists
    /\ ~valid
    /\ Len(stdout) = 1
    /\ IsErrorLine(stdout[1], InvalidError(argv.audio_file))
    /\ exitcode = 1

(* the extension names of the allow-list *)
AllowedNames ==
    { <<"m", "p", "3">>, <<"w", "a", "v">>, <<"m", "4", "a">>, <<"o", "g", "g">>,
      <<"f", "l", "a", "c">>, <<"a", "a", "c">> }

(* the file name is <non-empty stem>.<e>, letters compared without case *)
HasExtension(path, e) ==
    LET name == Name(path)
        n    == Len(name)
        k    == Len(e)
    IN  /\ n > k + 1
        /\ name[n - k] = "."
        /\ \A i \in 1..k : LowerChar(name[n - k + i]) = e[i]

(* C4: validate_audio_file(path) is true if and only if the path exists, the
   size is at least 1024 bytes and the extension, compared without case, is
   one of mp3, wav, m4a, ogg, flac, aac. *)
C4_ValidateIff ==
    (entry = "validate" /\ pc = "returned") =>
        (valid <=> /\ fexists
                   /\ fsize >= 1024
                   /\ \E e \in AllowedNames : HasExtension(argv.audio_file, e))

C4_Witness ==
    /\ entry = "validate" /\ pc = "returned"
    /\ valid
    /\ fsize = 1024
    /\ Suffix(argv.audio_file) \notin valid_extensions

(* C5: on one transcriber, no decode call is made on a null model handle, at
   most one handle is ever held, and once a handle is loaded every later call
   decodes on that same handle and constructs no other model. *)
C5_LazySingleModel ==
    /\ [](entry = "lib" =>
            /\ Cardinality(handles) <= 1
            /\ (pc = "decode" => model # NoModel)
            /\ (decode_calls > 0 => decode_model = model /\ model \in handles))
    /\ [][entry = "lib" =>
            /\ (model # NoModel => model' = model /\ ctor_calls' = ctor_calls)
            /\ (decode_calls' # decode_calls => model # NoModel /\ decode_model' = model)
         ]_vars

C5_Witness ==
    /\ entry = "lib" /\ pc = "idle"
    /\ calls = 2
    /\ decode_calls = 2
    /\ ctor_calls = 1
    /\ result # NoResult

LibraryTypes == {"RuntimeError", "ValueError"}

(* C6 as stated: a load failure reaches the caller tagged "ModelLoadError", a
   decode failure tagged "TranscriptionError", each with the underlying
   message; no second load or decode attempt; the invocation ends with the
   "Transcription failed: <message>" error. *)
C6_TaggedFailure ==
    /\ (entry = "cli" /\ exc.origin = "load") =>
           exc.type = "ModelLoadError" /\ exc.msg \in Msgs
    /\ (entry = "cli" /\ exc.origin = "decode") =>
           exc.type = "TranscriptionError" /\ exc.msg \in Msgs
    /\ entry = "cli" => ctor_calls <= 1 /\ decode_calls <= 1
    /\ (CliDone /\ Uninterrupted /\ exc.origin \in {"load", "decode"}) =>
           /\ Len(stdout) = 1
           /\ IsErrorLine(stdout[1], [error |-> <<"Transcription failed: ">> \o exc.msg])
           /\ exitcode = 1

(* C6 amended: the library's exception reaches the caller as it was raised
   (its own type, its own message, no tag); a load failure is followed by no
   decode call and no second load, a decode failure by no second decode; an
   invocation that is not cancelled ends with exactly the
   "Transcription failed: <message>" error and exit status 1. *)
C6_FailurePropagatesUntagged ==
    /\ (entry = "cli" /\ exc.origin \in {"load", "decode"}) =>
           /\ exc.type \in LibraryTypes
           /\ exc.msg \in Msgs
    /\ (entry = "cli" /\ exc.origin = "load") =>
           ctor_calls = 1 /\ decode_calls = 0 /\ model = NoModel
    /\ (entry = "cli" /\ exc.origin = "decode") =>
           ctor_calls = 1 /\ decode_calls = 1
    /\ entry = "cli" => ctor_calls <= 1 /\ decode_calls <= 1
    /\ (CliDone /\ Uninterrupted /\ exc.origin \in {"load", "decode"}) =>
           /\ Len(stdout) = 1
           /\ IsErrorLine(stdout[1], [error |-> <<"Transcription failed: ">> \o exc.msg])
           /\ exitcode = 1

C6_Witness ==
    /\ CliDone /\ Uninterrupted
    /\ exc.origin = "decode"
    /\ Len(yielded) > 0
    /\ exc.msg = <<"n">>
    /\ Len(stdout) = 1
    /\ IsErrorLine(stdout[1], [error |-> <<"Transcription failed: ", "n">>])
    /\ exitcode = 1

(* C7: an invocation that was interrupted while main was processing the file
   ends with exactly the "Transcription cancelled by user" error on standard
   output and exit status 1. *)
C7_InterruptBecomesCancelled ==
    (CliDone /\ interrupted_at # <<>> /\ ~InterruptedWhileParsing) =>
        /\ Len(stdout) = 1
        /\ IsErrorLine(stdout[1], CancelledError)
        /\ exitcode = 1

(* C8: with --language auto the decode call gets language = null; a result's
   language field is the language the library reported when it reported one,
   and the configured language otherwise. *)
C8_LanguageField ==
    /\ (entry = "cli" /\ decode_calls > 0 /\ argv.language = "auto") =>
           decode_language = None
    /\ (entry = "cli" /\ decode_calls > 0 /\ argv.language \notin {"auto", ""}) =>
           decode_language = argv.language
    /\ (entry = "cli" /\ result # NoResult) =>
           /\ info.has_language => result.language = info.language
           /\ ~info.has_language => result.language = self_language

C8_Witness ==
    /\ CliDone /\ Uninterrupted
    /\ argv.language = "auto"
    /\ decode_language = None
    /\ info.has_language
    /\ Len(stdout) = 1
    /\ IsSuccess(stdout[1])
    /\ stdout[1].language = "de"

HarnessEnded == entry = "harness" /\ h.pc \in {"returned", "exited"}

(* C9: whenever the harness ends after a test audio file was synthesized, the
   file no longer exists. *)
C9_TestFileCleanedUp ==
    (HarnessEnded /\ h.synthesized) => ~h.file_exists

C9_Witness ==
    /\ HarnessEnded
    /\ h.synthesized
    /\ h.sub.kind = "completed"
    /\ h.sub.rc = 1
    /\ ~h.file_exists

RECURSIVE JoinWithSpace(_)
JoinWithSpace(texts) ==
    IF texts = <<>> THEN <<>>
    ELSE IF Len(texts) = 1 THEN texts[1]
    ELSE texts[1] \o <<" ">> \o JoinWithSpace(Tail(texts))

(* leading and trailing spaces removed: the longest slice that neither
   starts nor ends with a space *)
Trimmed(s) ==
    LET keep == {i \in 1..Len(s) : s[i] # " "}
    IN  IF keep = {} THEN <<>>
        ELSE SubSeq(s, CHOOSE i \in keep : \A j \in keep : i <= j,
                       CHOOSE i \in keep : \A j \in keep : j <= i)

(* C10: the text of a result is the yielded segment texts joined with one
   space and trimmed, and segments is the number of segments yielded; no
   segments give the empty text and 0. *)
C10_TextIsJoinedAndStripped ==
    (entry = "cli" /\ result # NoResult) =>
        /\ result.text = Trimmed(JoinWithSpace(yielded))
        /\ result.segments = Len(yielded)
        /\ yielded = <<>> => result.text = <<>> /\ result.segments = 0

C10_Witness ==
    /\ CliDone /\ Uninterrupted
    /\ yielded = << <<" ", "a">>, <<"a", " ">> >>
    /\ Len(stdout) = 1
    /\ IsSuccess(stdout[1])
    /\ stdout[1].text = <<"a", " ", "a">>
    /\ stdout[1].segments = 2

====
